---- MODULE Spec2Model ----
(***************************************************************************)
(* Tenant-scoped field-level encryption of kp-dagger:                      *)
(*   core/encryption.py         KDFConfig, TenantEncryptionService,        *)
(*                              EncryptionServiceManager                   *)
(*   models/base/encryption.py  EncryptedField descriptor                  *)
(*   models/base/base.py        set_encryption_service                     *)
(*                                                                         *)
(* Byte strings are sequences of numbers: 0..255 is a raw byte, and the    *)
(* bytes of an AES-GCM output are numbered from 256 up, each one naming    *)
(* the <<key, nonce, data>> term it was computed from and its position.    *)
(* Argon2id, PBKDF2 and AES-GCM are library code: a derived key is the     *)
(* term of its inputs, and an AEAD output verifies only under the key and  *)
(* nonce it was made with.  Strings are sequences of Unicode scalar        *)
(* values.                                                                 *)
(***************************************************************************)
EXTENDS Integers, Sequences, FiniteSets, TLC

VARIABLES
    HAS_ARGON2,          \* module flag: the argon2 import succeeded
    runtime_key,         \* the runtime key handed to services and manager
    kdf_config,          \* the KDFConfig object handed to them, or NoneConfig
    services,            \* directly constructed services, per tenant
    ctor,                \* last constructor call and its exception
    enc,                 \* last TenantEncryptionService.encrypt call
    prev,                \* the encrypt call before it, when enc repeats it
    dec                  \* last TenantEncryptionService.decrypt call

VARIABLES
    manager,             \* the EncryptionServiceManager: runtime_key, kdf_config
    _services,           \* manager._services: tenant id -> instance, 0 if absent
    heap,                \* the TenantEncryptionService instances built so far
    pc,                  \* where each thread stands in get_service
    tenant_arg,          \* the tenant_id argument of each thread's call
    made,                \* the instance a thread has built and not yet stored
    result,              \* outcome of each thread's last get_service call
    ncalls,              \* number of get_service calls made so far
    returned             \* per tenant, the instances get_service has returned

VARIABLES
    declaration,         \* per encrypted field, the nullable argument of its declaration
    descriptors,         \* per encrypted field, its EncryptedField descriptor
    attrs,               \* per model instance, its attributes (name -> value)
    _encryption_service, \* per model instance, its _encryption_service
    direct,              \* a storage field was set other than by the descriptor
    decrypts,            \* per instance and field, the decryptions that succeeded
                         \* since the field was last assigned or deleted
    last                 \* last descriptor or model call and its outcome

envVars == <<HAS_ARGON2, runtime_key, kdf_config>>

fieldVars == <<declaration, descriptors, attrs, _encryption_service, direct,
               decrypts, last>>

serviceVars == <<services, ctor, enc, prev, dec>>

managerVars == <<manager, _services, heap, pc, tenant_arg, made, result,
                 ncalls, returned>>

vars == <<envVars, serviceVars, managerVars, fieldVars>>

(***************************************************************************)
(* Bounds                                                                  *)
(***************************************************************************)
NumTenants == 2
NumRandom == 2
NumThreads == 2
MaxCalls == 2

(***************************************************************************)
(* Program constants                                                       *)
(***************************************************************************)
MIN_RUNTIME_KEY_LENGTH == 32
PBKDF2_ITERATIONS == 600000
GCM_NONCE_LENGTH == 12
GCM_TAG_LENGTH == 16

(***************************************************************************)
(* Bytes and strings                                                       *)
(***************************************************************************)
Fill(n, b) == [i \in 1..n |-> b]

\* Python slice bs[a:b] with 0-based bounds, clamped to the sequence
Slice(bs, a, b) ==
    LET lo == IF a > Len(bs) THEN Len(bs) ELSE a
        hi == IF b > Len(bs) THEN Len(bs) ELSE b
    IN  IF hi <= lo THEN <<>> ELSE SubSeq(bs, lo + 1, hi)

\* UTF-8 encoding of one Unicode scalar value
Utf8EncodeChar(c) ==
    IF c < 128 THEN <<c>>
    ELSE IF c < 2048 THEN <<192 + (c \div 64), 128 + (c % 64)>>
    ELSE IF c < 65536 THEN
        <<224 + (c \div 4096), 128 + ((c \div 64) % 64), 128 + (c % 64)>>
    ELSE <<240 + (c \div 262144), 128 + ((c \div 4096) % 64),
           128 + ((c \div 64) % 64), 128 + (c % 64)>>

RECURSIVE Utf8Encode(_)
Utf8Encode(s) ==
    IF s = <<>> THEN <<>>
    ELSE Utf8EncodeChar(Head(s)) \o Utf8Encode(Tail(s))

IsCont(b) == b >= 128 /\ b <= 191

\* strict UTF-8 decoding: [ok, s]; ok is FALSE on any ill-formed sequence
RECURSIVE Utf8Decode(_)
Utf8Decode(bs) ==
    IF bs = <<>> THEN [ok |-> TRUE, s |-> <<>>]
    ELSE
      LET b1 == bs[1]
          n == IF b1 < 128 THEN 1
               ELSE IF b1 >= 194 /\ b1 <= 223 THEN 2
               ELSE IF b1 >= 224 /\ b1 <= 239 THEN 3
               ELSE IF b1 >= 240 /\ b1 <= 244 THEN 4
               ELSE 0
      IN  IF n = 0 \/ Len(bs) < n THEN [ok |-> FALSE, s |-> <<>>]
          ELSE
            LET c == IF n = 1 THEN b1
                     ELSE IF n = 2 THEN (b1 - 192) * 64 + (bs[2] - 128)
                     ELSE IF n = 3 THEN (b1 - 224) * 4096
                                        + (bs[2] - 128) * 64 + (bs[3] - 128)
                     ELSE (b1 - 240) * 262144 + (bs[2] - 128) * 4096
                          + (bs[3] - 128) * 64 + (bs[4] - 128)
                wellFormed ==
                    /\ \A i \in 2..n : IsCont(bs[i])
                    /\ n = 3 => (c >= 2048 /\ ~(c >= 55296 /\ c <= 57343))
                    /\ n = 4 => (c >= 65536 /\ c <= 1114111)
                rest == Utf8Decode(SubSeq(bs, n + 1, Len(bs)))
            IN  IF wellFormed /\ rest.ok
                THEN [ok |-> TRUE, s |-> <<c>> \o rest.s]
                ELSE [ok |-> FALSE, s |-> <<>>]

(***************************************************************************)
(* Tenant ids: tenant t is the UUID whose 32 hex digits are all t, as in   *)
(* 11111111-1111-1111-1111-111111111111.                                   *)
(***************************************************************************)
TenantIds == 1..NumTenants

HexDigit(d) == IF d < 10 THEN 48 + d ELSE 87 + d

\* str(uuid): 8-4-4-4-12 lower-case hex digits
UuidStr(t) ==
    [i \in 1..36 |-> IF i \in {9, 14, 19, 24} THEN 45 ELSE HexDigit(t % 16)]

(***************************************************************************)
(* KDFConfig                                                               *)
(***************************************************************************)
KDFArgs(algorithm, time_cost, memory_cost, parallelism, salt_length, key_length) ==
    [algorithm |-> algorithm, time_cost |-> time_cost,
     memory_cost |-> memory_cost, parallelism |-> parallelism,
     salt_length |-> salt_length, key_length |-> key_length]

\* the defaults of KDFConfig.__init__
DefaultKDFArgs == KDFArgs("argon2id", 3, 65536, 1, 32, 32)

\* "no KDFConfig object": the kdf_config=None argument
NoneConfig == KDFArgs("None", 0, 0, 0, 0, 0)

\* KDFConfig.__init__: the fields are stored as given; the only check is
\* the availability of argon2 for algorithm "argon2id"
KDFConfig(args) ==
    IF args.algorithm = "argon2id" /\ ~HAS_ARGON2
    THEN [exc |-> "EncryptionConfigError", obj |-> NoneConfig]
    ELSE [exc |-> "", obj |-> args]

(***************************************************************************)
(* TenantEncryptionService                                                 *)
(***************************************************************************)
NoService == [tenant_id |-> 0, runtime_key |-> <<>>, kdf_config |-> NoneConfig]

\* __init__ without the check of the runtime key's length
TenantEncryptionService_NoKeyCheck(tenant_id, key, config) ==
    LET cfg == IF config = NoneConfig THEN KDFConfig(DefaultKDFArgs)
               ELSE [exc |-> "", obj |-> config]
    IN  IF cfg.exc # "" THEN [exc |-> cfg.exc, obj |-> NoService]
        ELSE [exc |-> "",
              obj |-> [tenant_id |-> tenant_id, runtime_key |-> key,
                       kdf_config |-> cfg.obj]]

\* TenantEncryptionService.__init__(tenant_id, runtime_key, kdf_config)
TenantEncryptionService(tenant_id, key, config) ==
    LET cfg == IF config = NoneConfig THEN KDFConfig(DefaultKDFArgs)
               ELSE [exc |-> "", obj |-> config]
    IN  IF cfg.exc # "" THEN [exc |-> cfg.exc, obj |-> NoService]
        ELSE IF Len(key) < MIN_RUNTIME_KEY_LENGTH
        THEN [exc |-> "EncryptionConfigError", obj |-> NoService]
        ELSE [exc |-> "",
              obj |-> [tenant_id |-> tenant_id, runtime_key |-> key,
                       kdf_config |-> cfg.obj]]

\* the parameters a derived key depends on besides secret and salt
Argon2Params(cfg) ==
    [alg |-> "argon2id", time_cost |-> cfg.time_cost,
     memory_cost |-> cfg.memory_cost, parallelism |-> cfg.parallelism,
     iterations |-> 0, length |-> cfg.key_length]

Pbkdf2Params(cfg) ==
    [alg |-> "pbkdf2-hmac-sha256", time_cost |-> 0, memory_cost |-> 0,
     parallelism |-> 0, iterations |-> PBKDF2_ITERATIONS,
     length |-> cfg.key_length]

NoKey == [secret |-> <<>>, salt |-> <<>>, params |-> Argon2Params(NoneConfig)]

\* argon2.low_level.hash_secret_raw(..., type=Type.ID)
_derive_key_argon2(self, key_material, salt) ==
    IF ~HAS_ARGON2 THEN [exc |-> "NameError", key |-> NoKey]
    ELSE [exc |-> "",
          key |-> [secret |-> key_material, salt |-> salt,
                   params |-> Argon2Params(self.kdf_config)]]

\* PBKDF2HMAC(SHA256, length, salt, iterations).derive(key_material)
_derive_key_pbkdf2(self, key_material, salt) ==
    [exc |-> "",
     key |-> [secret |-> key_material, salt |-> salt,
              params |-> Pbkdf2Params(self.kdf_config)]]

\* str(tenant_id).encode() of every tenant id
TenantIdBytes == [t \in TenantIds |-> Utf8Encode(UuidStr(t))]

\* key material that leaves the tenant id out
KeyMaterial_NoTenant(self) == self.runtime_key

\* key material = str(tenant_id).encode() + runtime_key
KeyMaterial(self) == TenantIdBytes[self.tenant_id] \o self.runtime_key

_derive_key(self, salt) ==
    IF self.kdf_config.algorithm = "argon2id"
    THEN _derive_key_argon2(self, KeyMaterial(self), salt)
    ELSE IF self.kdf_config.algorithm = "pbkdf2"
    THEN _derive_key_pbkdf2(self, KeyMaterial(self), salt)
    ELSE [exc |-> "EncryptionConfigError", key |-> NoKey]

(***************************************************************************)
(* Inputs                                                                  *)
(***************************************************************************)
\* 32 bytes of 0x42, 33 bytes of "a", 31 bytes of 0x42, b"short"
RuntimeKeys ==
    { Fill(32, 66), Fill(33, 97), Fill(31, 66), <<115, 104, 111, 114, 116>> }

KDFArgsChoices ==
    { DefaultKDFArgs,
      KDFArgs("pbkdf2", 3, 65536, 1, 16, 32),
      KDFArgs("scrypt", 3, 65536, 1, 32, 32) }

\* "", "10.0.0.1", and a string of 2-, 3- and 4-byte characters
Plaintexts ==
    { <<>>, <<49, 48, 46, 48, 46, 48, 46, 49>>, <<233, 19990, 127757>> }

\* os.urandom(n): one of NumRandom byte strings of length n
Urandom(n) == { Fill(n, r) : r \in 1..NumRandom }

\* b"invalid encrypted data", b"corrupted data", 80 zero bytes
GarbageBlobs ==
    { <<105, 110, 118, 97, 108, 105, 100, 32, 101, 110, 99, 114, 121,
        112, 116, 101, 100, 32, 100, 97, 116, 97>>,
      <<99, 111, 114, 114, 117, 112, 116, 101, 100, 32, 100, 97, 116, 97>>,
      Fill(80, 0) }

\* a blob cut short or with one byte of its salt, nonce or tag replaced
Tampered(blob, salt_len) ==
    IF blob = <<>> THEN {}
    ELSE { SubSeq(blob, 1, Len(blob) - 1),
           [blob EXCEPT ![1] = 255],
           [blob EXCEPT ![salt_len + 1] = 255],
           [blob EXCEPT ![Len(blob)] = 255] }

(***************************************************************************)
(* AES-GCM (cryptography.hazmat AESGCM).  The terms <<key, nonce, data>>   *)
(* are numbered: the number is computed from the places of the term's      *)
(* parts in the lists below, so two terms have the same number only if     *)
(* they are the same term.                                                 *)
(***************************************************************************)
RECURSIVE SetToSeq(_)
SetToSeq(S) ==
    IF S = {} THEN <<>>
    ELSE LET x == CHOOSE y \in S : TRUE IN <<x>> \o SetToSeq(S \ {x})

Index(list, x) == CHOOSE i \in 1..Len(list) : list[i] = x

\* key material: a runtime key, alone or after the text of a tenant id
SecretList ==
    SetToSeq({ p \o k : p \in {<<>>} \cup { TenantIdBytes[t] : t \in TenantIds },
                        k \in RuntimeKeys })

SaltList == SetToSeq(UNION { Urandom(c.salt_length) : c \in KDFArgsChoices })

ParamList ==
    SetToSeq(UNION { {Argon2Params(c), Pbkdf2Params(c)} : c \in KDFArgsChoices })

NonceList == SetToSeq(Urandom(GCM_NONCE_LENGTH))

\* the UTF-8 form of the plaintexts, and one byte string that is no UTF-8
DataList == SetToSeq({ Utf8Encode(s) : s \in Plaintexts } \cup {<<255>>})

\* the longest AES-GCM output, tag included
MaxOutputLen == 64

AeadNo(key, nonce, data) ==
    ((((Index(SecretList, key.secret) - 1) * Len(SaltList)
       + (Index(SaltList, key.salt) - 1)) * Len(ParamList)
      + (Index(ParamList, key.params) - 1)) * Len(NonceList)
     + (Index(NonceList, nonce) - 1)) * Len(DataList)
    + (Index(DataList, data) - 1)

AeadTerm(no) ==
    LET d == no % Len(DataList)
        n == (no \div Len(DataList)) % Len(NonceList)
        p == (no \div (Len(DataList) * Len(NonceList))) % Len(ParamList)
        s == (no \div (Len(DataList) * Len(NonceList) * Len(ParamList)))
             % Len(SaltList)
        m == no \div (Len(DataList) * Len(NonceList) * Len(ParamList)
                      * Len(SaltList))
    IN  [secret |-> SecretList[m + 1], salt |-> SaltList[s + 1],
         params |-> ParamList[p + 1], nonce |-> NonceList[n + 1],
         data |-> DataList[d + 1]]

\* AESGCM(key): the key must be 128, 192 or 256 bits long
AESGCM_KeyOk(key) == key.params.length \in {16, 24, 32}

\* the nonce must be 8 to 128 bytes long
AESGCM_NonceOk(nonce) == Len(nonce) >= 8 /\ Len(nonce) <= 128

\* byte i of output number no
OutputBytes(no, len) ==
    [i \in 1..len |-> 256 + no * MaxOutputLen + (i - 1)]

\* AES-GCM output that does not depend on the nonce
AESGCM_Output_NoNonce(key, nonce, data) ==
    OutputBytes(AeadNo(key, NonceList[1], data), Len(data) + GCM_TAG_LENGTH)

\* ciphertext with the 16-byte tag appended
AESGCM_Output(key, nonce, data) ==
    OutputBytes(AeadNo(key, nonce, data), Len(data) + GCM_TAG_LENGTH)

AESGCM_encrypt(key, nonce, data) ==
    IF ~AESGCM_KeyOk(key) \/ ~AESGCM_NonceOk(nonce)
    THEN [exc |-> "ValueError", val |-> <<>>]
    ELSE [exc |-> "", val |-> AESGCM_Output(key, nonce, data)]

\* decrypt-and-verify: only an output made with this key and this nonce
\* passes the tag check
AESGCM_decrypt(key, nonce, ct) ==
    IF ~AESGCM_KeyOk(key) \/ ~AESGCM_NonceOk(nonce)
    THEN [exc |-> "ValueError", val |-> <<>>]
    ELSE IF Len(ct) < GCM_TAG_LENGTH \/ ct[1] < 256
    THEN [exc |-> "InvalidTag", val |-> <<>>]
    ELSE
      LET no == (ct[1] - 256) \div MaxOutputLen
          t == AeadTerm(no)
      IN  IF /\ t.secret = key.secret
             /\ t.salt = key.salt
             /\ t.params = key.params
             /\ t.nonce = nonce
             /\ ct = OutputBytes(no, Len(t.data) + GCM_TAG_LENGTH)
          THEN [exc |-> "", val |-> t.data]
          ELSE [exc |-> "InvalidTag", val |-> <<>>]

(***************************************************************************)
(* encrypt / decrypt.  salt and nonce are the two os.urandom results.      *)
(***************************************************************************)
\* encrypt that returns nonce and ciphertext without the salt
encrypt_NoSalt(self, plaintext, salt, nonce) ==
    IF plaintext = <<>> THEN [exc |-> "", val |-> <<>>]
    ELSE
      LET k == _derive_key(self, salt)
      IN  IF k.exc # "" THEN [exc |-> k.exc, val |-> <<>>]
          ELSE
            LET c == AESGCM_encrypt(k.key, nonce, Utf8Encode(plaintext))
            IN  IF c.exc # "" THEN [exc |-> c.exc, val |-> <<>>]
                ELSE [exc |-> "", val |-> nonce \o c.val]

\* encrypt that puts the nonce before the salt
encrypt_NonceFirst(self, plaintext, salt, nonce) ==
    IF plaintext = <<>> THEN [exc |-> "", val |-> <<>>]
    ELSE
      LET k == _derive_key(self, salt)
      IN  IF k.exc # "" THEN [exc |-> k.exc, val |-> <<>>]
          ELSE
            LET c == AESGCM_encrypt(k.key, nonce, Utf8Encode(plaintext))
            IN  IF c.exc # "" THEN [exc |-> c.exc, val |-> <<>>]
                ELSE [exc |-> "", val |-> nonce \o salt \o c.val]

\* encrypt without the test for the empty string
encrypt_NoShortCircuit(self, plaintext, salt, nonce) ==
    LET k == _derive_key(self, salt)
    IN  IF k.exc # "" THEN [exc |-> k.exc, val |-> <<>>]
        ELSE
          LET c == AESGCM_encrypt(k.key, nonce, Utf8Encode(plaintext))
          IN  IF c.exc # "" THEN [exc |-> c.exc, val |-> <<>>]
              ELSE [exc |-> "", val |-> salt \o nonce \o c.val]

encrypt(self, plaintext, salt, nonce) ==
    IF plaintext = <<>> THEN [exc |-> "", val |-> <<>>]
    ELSE
      LET k == _derive_key(self, salt)
      IN  IF k.exc # "" THEN [exc |-> k.exc, val |-> <<>>]
          ELSE
            LET c == AESGCM_encrypt(k.key, nonce, Utf8Encode(plaintext))
            IN  IF c.exc # "" THEN [exc |-> c.exc, val |-> <<>>]
                ELSE [exc |-> "", val |-> salt \o nonce \o c.val]

\* decrypt that takes the ciphertext from the end of the salt, nonce included
decrypt_NoNonceOffset(self, encrypted_data) ==
    IF encrypted_data = <<>> THEN [exc |-> "", val |-> <<>>]
    ELSE
      LET salt_len == self.kdf_config.salt_length
          salt == Slice(encrypted_data, 0, salt_len)
          nonce == Slice(encrypted_data, salt_len, salt_len + GCM_NONCE_LENGTH)
          ciphertext == Slice(encrypted_data, salt_len, Len(encrypted_data))
          k == _derive_key(self, salt)
      IN  IF k.exc # "" THEN [exc |-> "DecryptionError", val |-> <<>>]
          ELSE
            LET p == AESGCM_decrypt(k.key, nonce, ciphertext)
            IN  IF p.exc # "" THEN [exc |-> "DecryptionError", val |-> <<>>]
                ELSE
                  LET t == Utf8Decode(p.val)
                  IN  IF t.ok THEN [exc |-> "", val |-> t.s]
                      ELSE [exc |-> "DecryptionError", val |-> <<>>]

\* decrypt without the try/except that turns every exception into
\* DecryptionError
decrypt_NoWrap(self, encrypted_data) ==
    IF encrypted_data = <<>> THEN [exc |-> "", val |-> <<>>]
    ELSE
      LET salt_len == self.kdf_config.salt_length
          salt == Slice(encrypted_data, 0, salt_len)
          nonce == Slice(encrypted_data, salt_len, salt_len + GCM_NONCE_LENGTH)
          ciphertext == Slice(encrypted_data, salt_len + GCM_NONCE_LENGTH,
                              Len(encrypted_data))
          k == _derive_key(self, salt)
      IN  IF k.exc # "" THEN [exc |-> k.exc, val |-> <<>>]
          ELSE
            LET p == AESGCM_decrypt(k.key, nonce, ciphertext)
            IN  IF p.exc # "" THEN [exc |-> p.exc, val |-> <<>>]
                ELSE
                  LET t == Utf8Decode(p.val)
                  IN  IF t.ok THEN [exc |-> "", val |-> t.s]
                      ELSE [exc |-> "UnicodeDecodeError", val |-> <<>>]

decrypt(self, encrypted_data) ==
    IF encrypted_data = <<>> THEN [exc |-> "", val |-> <<>>]
    ELSE
      LET salt_len == self.kdf_config.salt_length
          salt == Slice(encrypted_data, 0, salt_len)
          nonce == Slice(encrypted_data, salt_len, salt_len + GCM_NONCE_LENGTH)
          ciphertext == Slice(encrypted_data, salt_len + GCM_NONCE_LENGTH,
                              Len(encrypted_data))
          k == _derive_key(self, salt)
      IN  IF k.exc # "" THEN [exc |-> "DecryptionError", val |-> <<>>]
          ELSE
            LET p == AESGCM_decrypt(k.key, nonce, ciphertext)
            IN  IF p.exc # "" THEN [exc |-> "DecryptionError", val |-> <<>>]
                ELSE
                  LET t == Utf8Decode(p.val)
                  IN  IF t.ok THEN [exc |-> "", val |-> t.s]
                      ELSE [exc |-> "DecryptionError", val |-> <<>>]

NoCall == [by |-> 0, arg |-> <<>>, exc |-> "", val |-> <<>>]

NoCtor == [cls |-> "", exc |-> ""]

(***************************************************************************)
(* Python values held in attributes: None, str (code points), bytes        *)
(***************************************************************************)
PyNone == [t |-> "NoneType", s |-> <<>>]

PyStr(s) == [t |-> "str", s |-> s]

PyBytes(b) == [t |-> "bytes", s |-> b]

\* str(value) of a str
str(value) == PyStr(value.s)

hasattr(obj, name) == name \in DOMAIN obj

getattr(obj, name, default) == IF name \in DOMAIN obj THEN obj[name] ELSE default

setattr(obj, name, value) ==
    [n \in DOMAIN obj \cup {name} |-> IF n = name THEN value ELSE obj[n]]

delattr(obj, name) == [n \in DOMAIN obj \ {name} |-> obj[n]]

(***************************************************************************)
(* EncryptedField.  Attribute names are sequences of name parts, so that   *)
(* f"_{name}" is <<"_">> \o name.                                          *)
(***************************************************************************)
\* __set_name__ that gives every field the same private name
__set_name___SharedCache(self, name) ==
    [storage_field |-> self.storage_field, nullable |-> self.nullable,
     name |-> name, private_name |-> <<"_", "value">>]

\* EncryptedField.__init__(storage_field, *, nullable=True); nullable_arg is
\* "omitted", "True" or "False"
EncryptedField(storage_field, nullable_arg) ==
    [storage_field |-> storage_field,
     nullable |-> IF nullable_arg = "omitted" THEN TRUE
                  ELSE nullable_arg = "True"]

__set_name__(self, name) ==
    [storage_field |-> self.storage_field, nullable |-> self.nullable,
     name |-> name, private_name |-> <<"_">> \o name]

\* __get__ that lets DecryptionError through
__get___Propagate(self, obj, service) ==
    IF hasattr(obj, self.private_name)
    THEN [exc |-> "", ret |-> obj[self.private_name], obj |-> obj,
          decrypted |-> FALSE]
    ELSE
      LET encrypted_data == getattr(obj, self.storage_field, PyNone)
      IN  IF encrypted_data = PyNone
          THEN [exc |-> "", ret |-> PyNone, obj |-> obj, decrypted |-> FALSE]
          ELSE IF service = NoService
          THEN [exc |-> "RuntimeError", ret |-> PyNone, obj |-> obj,
                decrypted |-> FALSE]
          ELSE
            LET r == decrypt(service, encrypted_data.s)
            IN  IF r.exc # ""
                THEN [exc |-> r.exc, ret |-> PyNone, obj |-> obj,
                      decrypted |-> TRUE]
                ELSE [exc |-> "", ret |-> PyStr(r.val),
                      obj |-> setattr(obj, self.private_name, PyStr(r.val)),
                      decrypted |-> TRUE]

\* __get__ that asks for the service before it looks at the storage field
__get___ServiceFirst(self, obj, service) ==
    IF hasattr(obj, self.private_name)
    THEN [exc |-> "", ret |-> obj[self.private_name], obj |-> obj,
          decrypted |-> FALSE]
    ELSE IF service = NoService
    THEN [exc |-> "RuntimeError", ret |-> PyNone, obj |-> obj,
          decrypted |-> FALSE]
    ELSE
      LET encrypted_data == getattr(obj, self.storage_field, PyNone)
      IN  IF encrypted_data = PyNone
          THEN [exc |-> "", ret |-> PyNone, obj |-> obj, decrypted |-> FALSE]
          ELSE
            LET r == decrypt(service, encrypted_data.s)
            IN  IF r.exc = "DecryptionError"
                THEN [exc |-> "", ret |-> PyNone, obj |-> obj,
                      decrypted |-> TRUE]
                ELSE [exc |-> "", ret |-> PyStr(r.val),
                      obj |-> setattr(obj, self.private_name, PyStr(r.val)),
                      decrypted |-> TRUE]

\* __get__ that caches None when decrypt raises DecryptionError
__get___CacheFailure(self, obj, service) ==
    IF hasattr(obj, self.private_name)
    THEN [exc |-> "", ret |-> obj[self.private_name], obj |-> obj,
          decrypted |-> FALSE]
    ELSE
      LET encrypted_data == getattr(obj, self.storage_field, PyNone)
      IN  IF encrypted_data = PyNone
          THEN [exc |-> "", ret |-> PyNone, obj |-> obj, decrypted |-> FALSE]
          ELSE IF service = NoService
          THEN [exc |-> "RuntimeError", ret |-> PyNone, obj |-> obj,
                decrypted |-> FALSE]
          ELSE
            LET r == decrypt(service, encrypted_data.s)
            IN  IF r.exc = "DecryptionError"
                THEN [exc |-> "", ret |-> PyNone,
                      obj |-> setattr(obj, self.private_name, PyNone),
                      decrypted |-> TRUE]
                ELSE [exc |-> "", ret |-> PyStr(r.val),
                      obj |-> setattr(obj, self.private_name, PyStr(r.val)),
                      decrypted |-> TRUE]

\* __get__ that never looks at the cached plaintext
__get___AlwaysDecrypt(self, obj, service) ==
    LET encrypted_data == getattr(obj, self.storage_field, PyNone)
    IN  IF encrypted_data = PyNone
        THEN [exc |-> "", ret |-> PyNone, obj |-> obj, decrypted |-> FALSE]
        ELSE IF service = NoService
        THEN [exc |-> "RuntimeError", ret |-> PyNone, obj |-> obj,
              decrypted |-> FALSE]
        ELSE
          LET r == decrypt(service, encrypted_data.s)
          IN  IF r.exc = "DecryptionError"
              THEN [exc |-> "", ret |-> PyNone, obj |-> obj,
                    decrypted |-> TRUE]
              ELSE [exc |-> "", ret |-> PyStr(r.val),
                    obj |-> setattr(obj, self.private_name, PyStr(r.val)),
                    decrypted |-> TRUE]

\* EncryptedField.__get__(obj): exception, returned value, the instance's
\* attributes afterwards, and whether service.decrypt was called
__get__(self, obj, service) ==
    IF hasattr(obj, self.private_name)
    THEN [exc |-> "", ret |-> obj[self.private_name], obj |-> obj,
          decrypted |-> FALSE]
    ELSE
      LET encrypted_data == getattr(obj, self.storage_field, PyNone)
      IN  IF encrypted_data = PyNone
          THEN [exc |-> "", ret |-> PyNone, obj |-> obj, decrypted |-> FALSE]
          ELSE IF service = NoService
          THEN [exc |-> "RuntimeError", ret |-> PyNone, obj |-> obj,
                decrypted |-> FALSE]
          ELSE
            LET r == decrypt(service, encrypted_data.s)
            IN  IF r.exc = "DecryptionError"
                THEN [exc |-> "", ret |-> PyNone, obj |-> obj,
                      decrypted |-> TRUE]
                ELSE [exc |-> "", ret |-> PyStr(r.val),
                      obj |-> setattr(obj, self.private_name, PyStr(r.val)),
                      decrypted |-> TRUE]

\* __set__ that clears only the storage field when given None
__set___KeepCache(self, obj, service, value, salt, nonce) ==
    IF value = PyNone /\ self.nullable
    THEN [exc |-> "", obj |-> setattr(obj, self.storage_field, PyNone)]
    ELSE IF value = PyNone /\ ~self.nullable
    THEN [exc |-> "ValueError", obj |-> obj]
    ELSE IF service = NoService
    THEN [exc |-> "RuntimeError", obj |-> obj]
    ELSE
      LET r == encrypt(service, str(value).s, salt, nonce)
      IN  IF r.exc # "" THEN [exc |-> r.exc, obj |-> obj]
          ELSE [exc |-> "",
                obj |-> setattr(setattr(obj, self.storage_field, PyBytes(r.val)),
                                self.private_name, value)]

\* __set__ that asks for the service before it looks at the value
__set___ServiceFirst(self, obj, service, value, salt, nonce) ==
    IF service = NoService
    THEN [exc |-> "RuntimeError", obj |-> obj]
    ELSE IF value = PyNone /\ self.nullable
    THEN [exc |-> "",
          obj |-> setattr(setattr(obj, self.storage_field, PyNone),
                          self.private_name, PyNone)]
    ELSE IF value = PyNone /\ ~self.nullable
    THEN [exc |-> "ValueError", obj |-> obj]
    ELSE
      LET r == encrypt(service, str(value).s, salt, nonce)
      IN  IF r.exc # "" THEN [exc |-> r.exc, obj |-> obj]
          ELSE [exc |-> "",
                obj |-> setattr(setattr(obj, self.storage_field, PyBytes(r.val)),
                                self.private_name, value)]

\* __set__ that stores the blob and caches nothing
__set___NoCache(self, obj, service, value, salt, nonce) ==
    IF value = PyNone /\ self.nullable
    THEN [exc |-> "",
          obj |-> setattr(setattr(obj, self.storage_field, PyNone),
                          self.private_name, PyNone)]
    ELSE IF value = PyNone /\ ~self.nullable
    THEN [exc |-> "ValueError", obj |-> obj]
    ELSE IF service = NoService
    THEN [exc |-> "RuntimeError", obj |-> obj]
    ELSE
      LET r == encrypt(service, str(value).s, salt, nonce)
      IN  IF r.exc # "" THEN [exc |-> r.exc, obj |-> obj]
          ELSE [exc |-> "",
                obj |-> setattr(obj, self.storage_field, PyBytes(r.val))]

\* __set__ that clears the storage field and the cache before it validates
__set___ClearFirst(self, obj, service, value, salt, nonce) ==
    LET cleared == setattr(setattr(obj, self.storage_field, PyNone),
                           self.private_name, PyNone)
    IN  IF value = PyNone /\ self.nullable
        THEN [exc |-> "", obj |-> cleared]
        ELSE IF value = PyNone /\ ~self.nullable
        THEN [exc |-> "ValueError", obj |-> cleared]
        ELSE IF service = NoService
        THEN [exc |-> "RuntimeError", obj |-> cleared]
        ELSE
          LET r == encrypt(service, str(value).s, salt, nonce)
          IN  IF r.exc # "" THEN [exc |-> r.exc, obj |-> cleared]
              ELSE [exc |-> "",
                    obj |-> setattr(setattr(obj, self.storage_field, PyBytes(r.val)),
                                    self.private_name, value)]

\* EncryptedField.__set__(obj, value); salt and nonce are what encrypt draws
__set__(self, obj, service, value, salt, nonce) ==
    IF value = PyNone /\ self.nullable
    THEN [exc |-> "",
          obj |-> setattr(setattr(obj, self.storage_field, PyNone),
                          self.private_name, PyNone)]
    ELSE IF value = PyNone /\ ~self.nullable
    THEN [exc |-> "ValueError", obj |-> obj]
    ELSE IF service = NoService
    THEN [exc |-> "RuntimeError", obj |-> obj]
    ELSE
      LET r == encrypt(service, str(value).s, salt, nonce)
      IN  IF r.exc # "" THEN [exc |-> r.exc, obj |-> obj]
          ELSE [exc |-> "",
                obj |-> setattr(setattr(obj, self.storage_field, PyBytes(r.val)),
                                self.private_name, value)]

\* __delete__ that clears the storage field and keeps the cached plaintext
__delete___KeepCache(self, obj) ==
    setattr(obj, self.storage_field, PyNone)

\* EncryptedField.__delete__(obj)
__delete__(self, obj) ==
    LET o1 == setattr(obj, self.storage_field, PyNone)
    IN  IF hasattr(o1, self.private_name) THEN delattr(o1, self.private_name)
        ELSE o1

(***************************************************************************)
(* IPAddress.original_address and IPAddress.normalized_address: two        *)
(* properties written by hand, the same code but for the attribute names;  *)
(* name is <<"original_address">> or <<"normalized_address">>.             *)
(***************************************************************************)
\* "_original_address_cached", "_normalized_address_cached"
IPAddress_cached(name) == <<"_">> \o name \o <<"_cached">>

\* "original_address_encrypted", "normalized_address_encrypted"
IPAddress_encrypted(name) == name \o <<"_encrypted">>

\* a getter that asks for the service before it looks at the storage field
IPAddress_getter_ServiceFirst(name, self, service) ==
    IF ~hasattr(self, IPAddress_cached(name))
    THEN IF service = NoService
         THEN [exc |-> "RuntimeError", ret |-> PyNone, obj |-> self,
               decrypted |-> FALSE]
         ELSE IF self[IPAddress_encrypted(name)] = PyNone
         THEN [exc |-> "", ret |-> PyNone, obj |-> self, decrypted |-> FALSE]
         ELSE
           LET r == decrypt(service, self[IPAddress_encrypted(name)].s)
           IN  IF r.exc # ""
               THEN [exc |-> "", ret |-> PyNone, obj |-> self,
                     decrypted |-> TRUE]
               ELSE [exc |-> "", ret |-> PyStr(r.val),
                     obj |-> setattr(self, IPAddress_cached(name), PyStr(r.val)),
                     decrypted |-> TRUE]
    ELSE [exc |-> "", ret |-> self[IPAddress_cached(name)], obj |-> self,
          decrypted |-> FALSE]

\* the property getter: exception, returned value, the instance's attributes
\* afterwards, and whether _encryption_service.decrypt was called; every
\* exception of decrypt is caught
IPAddress_getter(name, self, service) ==
    IF ~hasattr(self, IPAddress_cached(name))
    THEN IF self[IPAddress_encrypted(name)] = PyNone
         THEN [exc |-> "", ret |-> PyNone, obj |-> self, decrypted |-> FALSE]
         ELSE IF service = NoService
         THEN [exc |-> "RuntimeError", ret |-> PyNone, obj |-> self,
               decrypted |-> FALSE]
         ELSE
           LET r == decrypt(service, self[IPAddress_encrypted(name)].s)
           IN  IF r.exc # ""
               THEN [exc |-> "", ret |-> PyNone, obj |-> self,
                     decrypted |-> TRUE]
               ELSE [exc |-> "", ret |-> PyStr(r.val),
                     obj |-> setattr(self, IPAddress_cached(name), PyStr(r.val)),
                     decrypted |-> TRUE]
    ELSE [exc |-> "", ret |-> self[IPAddress_cached(name)], obj |-> self,
          decrypted |-> FALSE]

\* the property setter; salt and nonce are what encrypt draws
IPAddress_setter(name, self, service, value, salt, nonce) ==
    IF value = PyNone
    THEN [exc |-> "",
          obj |-> setattr(setattr(self, IPAddress_encrypted(name), PyNone),
                          IPAddress_cached(name), PyNone)]
    ELSE IF service = NoService
    THEN [exc |-> "RuntimeError", obj |-> self]
    ELSE
      LET r == encrypt(service, value.s, salt, nonce)
      IN  IF r.exc # "" THEN [exc |-> r.exc, obj |-> self]
          ELSE [exc |-> "",
                obj |-> setattr(setattr(self, IPAddress_encrypted(name),
                                        PyBytes(r.val)),
                                IPAddress_cached(name), value)]

(***************************************************************************)
(* Direct use of TenantEncryptionService                                   *)
(***************************************************************************)
NoOp == [op |-> "", obj |-> 0, field |-> <<>>, arg |-> PyNone, exc |-> "",
         ret |-> PyNone, decrypted |-> FALSE]

\* no model class, no model instance
FieldIdle ==
    /\ declaration = <<>>
    /\ descriptors = <<>>
    /\ attrs = <<>>
    /\ _encryption_service = <<>>
    /\ direct = FALSE
    /\ decrypts = <<>>
    /\ last = NoOp

NoManager == [runtime_key |-> <<>>, kdf_config |-> NoneConfig]

NoResult == [exc |-> "", ref |-> 0]

Threads == 1..NumThreads

\* no manager, no thread in get_service
ManagerIdle ==
    /\ manager = NoManager
    /\ _services = [t \in TenantIds |-> 0]
    /\ heap = <<>>
    /\ pc = [th \in Threads |-> "idle"]
    /\ tenant_arg = [th \in Threads |-> 0]
    /\ made = [th \in Threads |-> 0]
    /\ result = [th \in Threads |-> NoResult]
    /\ ncalls = 0
    /\ returned = [t \in TenantIds |-> {}]

ServiceInit ==
    /\ ManagerIdle
    /\ FieldIdle
    /\ HAS_ARGON2 \in BOOLEAN
    /\ runtime_key \in RuntimeKeys
    /\ kdf_config = NoneConfig
    /\ services = [t \in TenantIds |-> NoService]
    /\ ctor = NoCtor
    /\ enc = NoCall
    /\ prev = NoCall
    /\ dec = NoCall

\* cfg = KDFConfig(...), kept for the services built afterwards
NewKDFConfig(args) ==
    /\ kdf_config = NoneConfig
    /\ LET r == KDFConfig(args)
       IN  /\ kdf_config' = r.obj
           /\ ctor' = [cls |-> "KDFConfig", exc |-> r.exc]
    /\ UNCHANGED <<HAS_ARGON2, runtime_key, services, enc, prev, dec, managerVars,
                   fieldVars>>

\* services[t] = TenantEncryptionService(t, runtime_key, kdf_config)
NewService(t) ==
    /\ services[t] = NoService
    /\ LET r == TenantEncryptionService(t, runtime_key, kdf_config)
       IN  /\ services' = [services EXCEPT ![t] = r.obj]
           /\ ctor' = [cls |-> "TenantEncryptionService", exc |-> r.exc]
    /\ UNCHANGED <<envVars, enc, prev, dec, managerVars, fieldVars>>

\* an encrypt call that replaces the runtime key of the service it is called on
Encrypt_Rekey(t, s) ==
    /\ services[t] # NoService
    /\ dec = NoCall
    /\ \E salt \in Urandom(services[t].kdf_config.salt_length),
          nonce \in Urandom(GCM_NONCE_LENGTH) :
          \E r \in {encrypt(services[t], s, salt, nonce)} :
              enc' = [by |-> t, arg |-> s, exc |-> r.exc, val |-> r.val]
    /\ services' = [services EXCEPT ![t].runtime_key = Fill(MIN_RUNTIME_KEY_LENGTH + 1, 97)]
    /\ prev' = NoCall
    /\ dec' = NoCall
    /\ UNCHANGED <<envVars, ctor, managerVars, fieldVars>>

\* services[t].encrypt(s); a run encrypts until it hands a blob to decrypt
Encrypt(t, s) ==
    /\ services[t] # NoService
    /\ dec = NoCall
    /\ \E salt \in Urandom(services[t].kdf_config.salt_length),
          nonce \in Urandom(GCM_NONCE_LENGTH) :
          \E r \in {encrypt(services[t], s, salt, nonce)} :
              enc' = [by |-> t, arg |-> s, exc |-> r.exc, val |-> r.val]
    /\ prev' = NoCall
    /\ dec' = NoCall
    /\ UNCHANGED <<envVars, services, ctor, managerVars, fieldVars>>

\* services[t].encrypt(s) once more, with the s of the call just made by
\* the same service
EncryptAgain(t) ==
    /\ services[t] # NoService
    /\ dec = NoCall
    /\ enc.by = t
    /\ \E salt \in Urandom(services[t].kdf_config.salt_length),
          nonce \in Urandom(GCM_NONCE_LENGTH) :
          \E r \in {encrypt(services[t], enc.arg, salt, nonce)} :
              enc' = [by |-> t, arg |-> enc.arg, exc |-> r.exc, val |-> r.val]
    /\ prev' = enc
    /\ dec' = NoCall
    /\ UNCHANGED <<envVars, services, ctor, managerVars, fieldVars>>

\* service is built and its KDF algorithm is one that _derive_key knows
CanDerive(service) ==
    service # NoService /\ service.kdf_config.algorithm \in {"argon2id", "pbkdf2"}

\* a blob that passes the tag check of service and holds the byte 0xFF, which
\* is no UTF-8 text: made with the key of service, not by encrypt
NonTextBlob(service) ==
    LET salt == Fill(service.kdf_config.salt_length, 1)
        nonce == Fill(GCM_NONCE_LENGTH, 1)
    IN  salt \o nonce \o AESGCM_Output(_derive_key(service, salt).key, nonce, <<255>>)

\* the byte strings handed to decrypt: the last blob, the blob before it, a
\* damaged copy, garbage, an authentic blob of bytes that are no text
DecryptInputs ==
    {enc.val, prev.val} \cup GarbageBlobs
    \cup { NonTextBlob(services[t]) : t \in { u \in TenantIds : CanDerive(services[u]) } }
    \cup (IF enc.by = 0 THEN {}
          ELSE Tampered(enc.val, services[enc.by].kdf_config.salt_length))

\* services[t].decrypt(blob) for one of the inputs: the call that ends a run
\* (a service keeps no state between calls, so a longer run meets no other
\* case)
Decrypt(t) ==
    /\ services[t] # NoService
    /\ dec = NoCall
    /\ \E blob \in DecryptInputs :
           \E r \in {decrypt(services[t], blob)} :
               dec' = [by |-> t, arg |-> blob, exc |-> r.exc, val |-> r.val]
    /\ UNCHANGED <<envVars, services, ctor, enc, prev, managerVars, fieldVars>>

ServiceNext ==
    \/ \E args \in KDFArgsChoices : NewKDFConfig(args)
    \/ \E t \in TenantIds : NewService(t)
    \/ \E t \in TenantIds, s \in Plaintexts : Encrypt(t, s)
    \/ \E t \in TenantIds : Decrypt(t)

SpecService == ServiceInit /\ [][ServiceNext]_vars

\* the same program, with repeated encrypt calls, where argon2 is installed
\* and the runtime key has the minimum length
RepeatInit ==
    /\ ServiceInit
    /\ HAS_ARGON2
    /\ Len(runtime_key) = MIN_RUNTIME_KEY_LENGTH

RepeatNext ==
    \/ ServiceNext
    \/ \E t \in TenantIds : EncryptAgain(t)

SpecRepeat == RepeatInit /\ [][RepeatNext]_vars

(***************************************************************************)
(* EncryptionServiceManager.  get_service is run by several threads; a     *)
(* thread can be preempted between the membership test, the constructor    *)
(* call, the store into the dict and the final lookup.                     *)
(***************************************************************************)
\* EncryptionServiceManager.__init__(runtime_key, kdf_config)
EncryptionServiceManager(key, config) ==
    LET cfg == IF config = NoneConfig THEN KDFConfig(DefaultKDFArgs)
               ELSE [exc |-> "", obj |-> config]
    IN  IF cfg.exc # "" THEN [exc |-> cfg.exc, obj |-> NoManager]
        ELSE [exc |-> "",
              obj |-> [runtime_key |-> key, kdf_config |-> cfg.obj]]

ManagerInit ==
    /\ HAS_ARGON2 \in BOOLEAN
    /\ runtime_key \in RuntimeKeys
    /\ \E args \in KDFArgsChoices : kdf_config \in {NoneConfig, KDFConfig(args).obj}
    /\ services = [t \in TenantIds |-> NoService]
    /\ ctor = NoCtor
    /\ enc = NoCall
    /\ prev = NoCall
    /\ dec = NoCall
    /\ ManagerIdle
    /\ FieldIdle

\* manager = EncryptionServiceManager(runtime_key, kdf_config)
NewManager ==
    /\ manager = NoManager
    /\ ctor = NoCtor
    /\ LET r == EncryptionServiceManager(runtime_key, kdf_config)
       IN  /\ manager' = r.obj
           /\ ctor' = [cls |-> "EncryptionServiceManager", exc |-> r.exc]
    /\ UNCHANGED <<envVars, services, enc, prev, dec, fieldVars, _services, heap, pc,
                   tenant_arg, made, result, ncalls, returned>>

\* a thread calls manager.get_service(t)
get_service_call(th, t) ==
    /\ manager # NoManager
    /\ pc[th] = "idle"
    /\ ncalls < MaxCalls
    /\ pc' = [pc EXCEPT ![th] = "test"]
    /\ tenant_arg' = [tenant_arg EXCEPT ![th] = t]
    /\ ncalls' = ncalls + 1
    /\ result' = [result EXCEPT ![th] = NoResult]
    /\ UNCHANGED <<envVars, serviceVars, fieldVars, manager, _services, heap, made,
                   returned>>

\* if tenant_id not in self._services:
get_service_test(th) ==
    /\ pc[th] = "test"
    /\ pc' = [pc EXCEPT ![th] =
                 IF _services[tenant_arg[th]] = 0 THEN "construct" ELSE "lookup"]
    /\ UNCHANGED <<envVars, serviceVars, fieldVars, manager, _services, heap,
                   tenant_arg, made, result, ncalls, returned>>

\* TenantEncryptionService(tenant_id, self.runtime_key, self.kdf_config);
\* an exception of the constructor ends the call
get_service_construct(th) ==
    /\ pc[th] = "construct"
    /\ LET r == TenantEncryptionService(tenant_arg[th], manager.runtime_key,
                                        manager.kdf_config)
       IN  IF r.exc # ""
           THEN /\ result' = [result EXCEPT ![th] = [exc |-> r.exc, ref |-> 0]]
                /\ pc' = [pc EXCEPT ![th] = "idle"]
                /\ UNCHANGED <<heap, made>>
           ELSE /\ heap' = Append(heap, r.obj)
                /\ made' = [made EXCEPT ![th] = Len(heap) + 1]
                /\ pc' = [pc EXCEPT ![th] = "store"]
                /\ UNCHANGED result
    /\ UNCHANGED <<envVars, serviceVars, fieldVars, manager, _services, tenant_arg,
                   ncalls, returned>>

\* a store that puts the new instance under every tenant id
get_service_store_EveryTenant(th) ==
    /\ pc[th] = "store"
    /\ _services' = [t \in TenantIds |-> made[th]]
    /\ made' = [made EXCEPT ![th] = 0]
    /\ pc' = [pc EXCEPT ![th] = "lookup"]
    /\ UNCHANGED <<envVars, serviceVars, fieldVars, manager, heap, tenant_arg, result,
                   ncalls, returned>>

\* self._services[tenant_id] = <the new instance>
get_service_store(th) ==
    /\ pc[th] = "store"
    /\ _services' = [_services EXCEPT ![tenant_arg[th]] = made[th]]
    /\ made' = [made EXCEPT ![th] = 0]
    /\ pc' = [pc EXCEPT ![th] = "lookup"]
    /\ UNCHANGED <<envVars, serviceVars, fieldVars, manager, heap, tenant_arg, result,
                   ncalls, returned>>

\* return self._services[tenant_id]
get_service_return(th) ==
    /\ pc[th] = "lookup"
    /\ result' = [result EXCEPT ![th] =
                     [exc |-> "", ref |-> _services[tenant_arg[th]]]]
    /\ returned' = [returned EXCEPT ![tenant_arg[th]] =
                       @ \cup {_services[tenant_arg[th]]}]
    /\ pc' = [pc EXCEPT ![th] = "idle"]
    /\ UNCHANGED <<envVars, serviceVars, fieldVars, manager, _services, heap,
                   tenant_arg, made, ncalls>>

ManagerNext ==
    \/ NewManager
    \/ \E th \in Threads, t \in TenantIds : get_service_call(th, t)
    \/ \E th \in Threads : get_service_test(th)
    \/ \E th \in Threads : get_service_construct(th)
    \/ \E th \in Threads : get_service_store(th)
    \/ \E th \in Threads : get_service_return(th)

SpecManager == ManagerInit /\ [][ManagerNext]_vars

(***************************************************************************)
(* A model class with an encrypted field, and its instances                *)
(***************************************************************************)
FieldNames == { <<"secret_data">> }

Instances == {1}

NullableArgs == {"omitted", "True", "False"}

StorageName(name) == name \o <<"_encrypted">>

\* the values assigned to an encrypted field: None, "10.0.0.1", ""
FieldValues == { PyNone, PyStr(<<49, 48, 46, 48, 46, 48, 46, 49>>), PyStr(<<>>) }

\* PyBastionBaseModel.__init__(**data): the storage columns are taken from
\* data (None by default), no service is bound, nothing is cached
NewModel(data) == [attrs |-> data, service |-> NoService]

\* a manager whose get_service(t) has built and stored held[t], for every
\* tenant in turn, before the calls that the threads make are counted
ManagerHolding(m, held) ==
    /\ manager = m
    /\ heap = [i \in 1..NumTenants |-> held[i]]
    /\ _services = [t \in TenantIds |-> t]
    /\ pc = [th \in Threads |-> "idle"]
    /\ tenant_arg = [th \in Threads |-> 0]
    /\ made = [th \in Threads |-> 0]
    /\ result = [th \in Threads |-> NoResult]
    /\ ncalls = 0
    /\ returned = [t \in TenantIds |-> {}]

FieldInit ==
    /\ HAS_ARGON2 = TRUE
    /\ runtime_key \in { k \in RuntimeKeys : Len(k) = MIN_RUNTIME_KEY_LENGTH }
    /\ kdf_config \in {NoneConfig} \cup (KDFArgsChoices \ {DefaultKDFArgs})
    /\ services = [t \in TenantIds |->
                      TenantEncryptionService(t, runtime_key, kdf_config).obj]
    /\ ctor = NoCtor
    /\ enc = NoCall
    /\ prev = NoCall
    /\ dec = NoCall
    /\ ManagerHolding(EncryptionServiceManager(runtime_key, kdf_config).obj, services)
    /\ declaration \in [FieldNames -> NullableArgs]
    /\ descriptors = [f \in FieldNames |->
                         __set_name__(EncryptedField(StorageName(f), declaration[f]), f)]
    /\ attrs = [o \in Instances |->
                   NewModel([n \in { StorageName(f) : f \in FieldNames } |-> PyNone]).attrs]
    /\ _encryption_service = [o \in Instances |->
                   NewModel([n \in { StorageName(f) : f \in FieldNames } |-> PyNone]).service]
    /\ direct = FALSE
    /\ decrypts = [o \in Instances |-> [f \in FieldNames |-> 0]]
    /\ last = NoOp

Call(op, o, f, arg, exc, ret, decrypted) ==
    [op |-> op, obj |-> o, field |-> f, arg |-> arg, exc |-> exc, ret |-> ret,
     decrypted |-> decrypted]

\* the call of service.decrypt made by a get returned a plaintext
Decrypted(r) == r.decrypted /\ r.exc = "" /\ r.ret # PyNone

\* value = obj.<field>
FieldGet(o, f) ==
    /\ LET r == __get__(descriptors[f], attrs[o], _encryption_service[o])
       IN  /\ attrs' = [attrs EXCEPT ![o] = r.obj]
           /\ last' = Call("get", o, f, PyNone, r.exc, r.ret, r.decrypted)
           /\ decrypts' = [decrypts EXCEPT ![o][f] =
                              IF Decrypted(r) THEN @ + 1 ELSE @]
    /\ UNCHANGED <<envVars, serviceVars, managerVars, declaration,
                   descriptors, _encryption_service, direct>>

\* obj.<field> = value
FieldSet(o, f, value) ==
    /\ \E salt \in Urandom(_encryption_service[o].kdf_config.salt_length),
          nonce \in Urandom(GCM_NONCE_LENGTH) :
          LET r == __set__(descriptors[f], attrs[o], _encryption_service[o],
                           value, salt, nonce)
          IN  /\ attrs' = [attrs EXCEPT ![o] = r.obj]
              /\ last' = Call("set", o, f, value, r.exc, PyNone, FALSE)
              /\ decrypts' = [decrypts EXCEPT ![o][f] =
                                 IF r.exc = "" THEN 0 ELSE @]
    /\ UNCHANGED <<envVars, serviceVars, managerVars, declaration,
                   descriptors, _encryption_service, direct>>

\* del obj.<field>
FieldDelete(o, f) ==
    /\ attrs' = [attrs EXCEPT ![o] = __delete__(descriptors[f], attrs[o])]
    /\ last' = Call("delete", o, f, PyNone, "", PyNone, FALSE)
    /\ decrypts' = [decrypts EXCEPT ![o][f] = 0]
    /\ UNCHANGED <<envVars, serviceVars, managerVars, declaration,
                   descriptors, _encryption_service, direct>>

\* obj.set_encryption_service(services[t])
set_encryption_service(o, t) ==
    /\ _encryption_service' = [_encryption_service EXCEPT ![o] = services[t]]
    /\ last' = Call("set_encryption_service", o, <<>>, PyNone, "", PyNone, FALSE)
    /\ UNCHANGED <<envVars, serviceVars, managerVars, declaration,
                   descriptors, attrs, direct, decrypts>>

\* obj.<field>_encrypted = blob, past the descriptor
StorageWrite(o, f, blob) ==
    /\ attrs' = [attrs EXCEPT ![o] =
                    setattr(@, descriptors[f].storage_field, PyBytes(blob))]
    /\ direct' = TRUE
    /\ last' = Call("write", o, f, PyBytes(blob), "", PyNone, FALSE)
    /\ UNCHANGED <<envVars, serviceVars, managerVars, declaration,
                   descriptors, _encryption_service, decrypts>>

\* the instance is stored and loaded again: a new instance is built from
\* the storage columns alone
Reload(o) ==
    /\ LET new == NewModel([n \in { descriptors[f].storage_field : f \in DOMAIN descriptors }
                                |-> attrs[o][n]])
       IN  /\ attrs' = [attrs EXCEPT ![o] = new.attrs]
           /\ _encryption_service' = [_encryption_service EXCEPT ![o] = new.service]
    /\ direct' = TRUE
    /\ decrypts' = [decrypts EXCEPT ![o] = [f \in DOMAIN @ |-> 0]]
    /\ last' = Call("reload", o, <<>>, PyNone, "", PyNone, FALSE)
    /\ UNCHANGED <<envVars, serviceVars, managerVars, declaration, descriptors>>

FieldNext ==
    \/ \E o \in Instances, f \in FieldNames : FieldGet(o, f)
    \/ \E o \in Instances, f \in FieldNames, v \in FieldValues : FieldSet(o, f, v)
    \/ \E o \in Instances, f \in FieldNames : FieldDelete(o, f)
    \/ \E o \in Instances, t \in TenantIds : set_encryption_service(o, t)
    \/ \E o \in Instances, f \in FieldNames, blob \in GarbageBlobs :
           StorageWrite(o, f, blob)
    \/ \E o \in Instances : Reload(o)

SpecField == FieldInit /\ [][FieldNext]_vars

(***************************************************************************)
(* The model class of the unit tests, with its two encrypted fields on one *)
(* instance, or with one of them on two instances                          *)
(***************************************************************************)
PairFields == { <<"secret_data">>, <<"optional_secret">> }

\* secret_data = EncryptedField("secret_data_encrypted");
\* optional_secret = EncryptedField("optional_secret_encrypted", nullable=True)
PairDeclaration ==
    [f \in PairFields |-> IF f = <<"secret_data">> THEN "omitted" ELSE "True"]

PairShapes ==
    { [instances |-> {1}, fields |-> PairFields],
      [instances |-> {1, 2}, fields |-> { <<"secret_data">> }] }

\* the values assigned: None, "10.0.0.1"
PairValues == { PyNone, PyStr(<<49, 48, 46, 48, 46, 48, 46, 49>>) }

PairInit ==
    /\ HAS_ARGON2 = TRUE
    /\ runtime_key \in { k \in RuntimeKeys : Len(k) = MIN_RUNTIME_KEY_LENGTH }
    /\ kdf_config = NoneConfig
    /\ services = [t \in TenantIds |->
                      TenantEncryptionService(t, runtime_key, kdf_config).obj]
    /\ ctor = NoCtor
    /\ enc = NoCall
    /\ prev = NoCall
    /\ dec = NoCall
    /\ ManagerHolding(EncryptionServiceManager(runtime_key, kdf_config).obj, services)
    /\ \E shape \in PairShapes :
          /\ declaration = [f \in shape.fields |-> PairDeclaration[f]]
          /\ descriptors = [f \in shape.fields |->
                __set_name__(EncryptedField(StorageName(f), PairDeclaration[f]), f)]
          /\ attrs = [o \in shape.instances |->
                NewModel([n \in { StorageName(f) : f \in shape.fields } |-> PyNone]).attrs]
          /\ _encryption_service = [o \in shape.instances |->
                NewModel([n \in { StorageName(f) : f \in shape.fields } |-> PyNone]).service]
          /\ decrypts = [o \in shape.instances |-> [f \in shape.fields |-> 0]]
    /\ direct = FALSE
    /\ last = NoOp

PairNext ==
    \/ \E o \in DOMAIN attrs, f \in DOMAIN descriptors : FieldGet(o, f)
    \/ \E o \in DOMAIN attrs, f \in DOMAIN descriptors, v \in PairValues :
           FieldSet(o, f, v)
    \/ \E o \in DOMAIN attrs, f \in DOMAIN descriptors : FieldDelete(o, f)
    \/ \E o \in DOMAIN attrs : set_encryption_service(o, 1)
    \/ \E o \in DOMAIN attrs : Reload(o)

SpecPair == PairInit /\ [][PairNext]_vars

(***************************************************************************)
(* An IPAddress instance next to an instance of a model that declares the  *)
(* same name as a nullable EncryptedField: every call is made on both,     *)
(* with the same argument, the same service and the same random draws.     *)
(***************************************************************************)
IPFields == { <<"original_address">>, <<"normalized_address">> }

\* the IPAddress instance and the instance with the EncryptedField
IPInstance == 1

RefInstance == 2

IPInit ==
    /\ HAS_ARGON2 = TRUE
    /\ runtime_key \in { k \in RuntimeKeys : Len(k) = MIN_RUNTIME_KEY_LENGTH }
    /\ kdf_config \in {NoneConfig} \cup (KDFArgsChoices \ {DefaultKDFArgs})
    /\ services = [t \in TenantIds |->
                      TenantEncryptionService(t, runtime_key, kdf_config).obj]
    /\ ctor = NoCtor
    /\ enc = NoCall
    /\ prev = NoCall
    /\ dec = NoCall
    /\ ManagerHolding(EncryptionServiceManager(runtime_key, kdf_config).obj, services)
    /\ \E name \in IPFields :
          /\ declaration = [f \in {name} |-> "True"]
          /\ descriptors = [f \in {name} |->
                __set_name__(EncryptedField(IPAddress_encrypted(f), "True"), f)]
          /\ decrypts = [o \in {IPInstance, RefInstance} |-> [f \in {name} |-> 0]]
    /\ attrs = [o \in {IPInstance, RefInstance} |->
                   NewModel([n \in { IPAddress_encrypted(f) : f \in IPFields }
                                |-> PyNone]).attrs]
    /\ _encryption_service = [o \in {IPInstance, RefInstance} |->
                   NewModel([n \in { IPAddress_encrypted(f) : f \in IPFields }
                                |-> PyNone]).service]
    /\ direct = FALSE
    /\ last = NoOp

\* ip.<name> next to ref.<name>; last is the outcome on the IPAddress
IPGet(f) ==
    /\ \E p \in {IPAddress_getter(f, attrs[IPInstance],
                                  _encryption_service[IPInstance])},
          d \in {__get__(descriptors[f], attrs[RefInstance],
                         _encryption_service[RefInstance])} :
          /\ attrs' = [attrs EXCEPT ![IPInstance] = p.obj, ![RefInstance] = d.obj]
          /\ decrypts' = [decrypts EXCEPT
                             ![IPInstance][f] = IF Decrypted(p) THEN @ + 1 ELSE @,
                             ![RefInstance][f] = IF Decrypted(d) THEN @ + 1 ELSE @]
          /\ last' = Call("get", IPInstance, f, PyNone, p.exc, p.ret, p.decrypted)
    /\ UNCHANGED <<envVars, serviceVars, managerVars, declaration,
                   descriptors, _encryption_service, direct>>

\* ip.<name> = value next to ref.<name> = value
IPSet(f, value) ==
    /\ \E salt \in Urandom(_encryption_service[IPInstance].kdf_config.salt_length),
          nonce \in Urandom(GCM_NONCE_LENGTH) :
          \E p \in {IPAddress_setter(f, attrs[IPInstance],
                                     _encryption_service[IPInstance],
                                     value, salt, nonce)},
             d \in {__set__(descriptors[f], attrs[RefInstance],
                            _encryption_service[RefInstance],
                            value, salt, nonce)} :
             /\ attrs' = [attrs EXCEPT ![IPInstance] = p.obj, ![RefInstance] = d.obj]
             /\ decrypts' = [decrypts EXCEPT
                                ![IPInstance][f] = IF p.exc = "" THEN 0 ELSE @,
                                ![RefInstance][f] = IF d.exc = "" THEN 0 ELSE @]
             /\ last' = Call("set", IPInstance, f, value, p.exc, PyNone, FALSE)
    /\ UNCHANGED <<envVars, serviceVars, managerVars, declaration,
                   descriptors, _encryption_service, direct>>

\* both instances get the service of tenant t
IPBind(t) ==
    /\ _encryption_service' = [o \in DOMAIN _encryption_service |-> services[t]]
    /\ last' = Call("set_encryption_service", IPInstance, <<>>, PyNone, "",
                    PyNone, FALSE)
    /\ UNCHANGED <<envVars, serviceVars, managerVars, declaration,
                   descriptors, attrs, direct, decrypts>>

\* both instances are stored and loaded again
IPReload ==
    /\ attrs' = [o \in DOMAIN attrs |->
                    NewModel([n \in { IPAddress_encrypted(f) : f \in IPFields }
                                 |-> attrs[o][n]]).attrs]
    /\ _encryption_service' = [o \in DOMAIN attrs |->
                    NewModel([n \in { IPAddress_encrypted(f) : f \in IPFields }
                                 |-> attrs[o][n]]).service]
    /\ direct' = TRUE
    /\ decrypts' = [o \in DOMAIN decrypts |-> [f \in DOMAIN decrypts[o] |-> 0]]
    /\ last' = Call("reload", IPInstance, <<>>, PyNone, "", PyNone, FALSE)
    /\ UNCHANGED <<envVars, serviceVars, managerVars, declaration, descriptors>>

IPNext ==
    \/ \E f \in DOMAIN descriptors : IPGet(f)
    \/ \E f \in DOMAIN descriptors, v \in FieldValues : IPSet(f, v)
    \/ \E t \in TenantIds : IPBind(t)
    \/ IPReload

SpecIP == IPInit /\ [][IPNext]_vars

(***************************************************************************)
(* A program that uses the services directly, or through a manager         *)
(***************************************************************************)
CoreInit == ServiceInit \/ ManagerInit

CoreNext ==
    \/ manager = NoManager /\ ServiceNext
    \/ (\A t \in TenantIds : services[t] = NoService) /\ ManagerNext

SpecCore == CoreInit /\ [][CoreNext]_vars

\* either program: services and managers, or a model class and its instances
AllInit == CoreInit \/ FieldInit

AllNext ==
    \/ descriptors = <<>> /\ CoreNext
    \/ descriptors # <<>> /\ FieldNext

SpecAll == AllInit /\ [][AllNext]_vars

(***************************************************************************)
(* Properties of TenantEncryptionService                                   *)
(***************************************************************************)
\* C1: under a service built from (t, k) alone, encrypt(s) succeeds for
\* every string s, whatever salt and nonce it drew, and decrypt of the blob
\* it returned gives s back.
C1_RoundTrip ==
    /\ (enc.by # 0 /\ services[enc.by].kdf_config = DefaultKDFArgs)
           => enc.exc = ""
    /\ (dec.by # 0 /\ dec.by = enc.by /\ enc.exc = "" /\ dec.arg = enc.val)
           => (dec.exc = "" /\ dec.val = enc.arg)

\* a blob of a string with multi-byte characters was decrypted by the
\* service that made it
C1_Witness ==
    /\ dec.by # 0 /\ dec.by = enc.by /\ dec.arg = enc.val
    /\ services[enc.by].kdf_config = DefaultKDFArgs
    /\ enc.arg = <<233, 19990, 127757>>
    /\ Len(enc.val) > 0
    /\ dec.val = enc.arg

\* C2: a blob that one tenant's service made from a non-empty string is
\* refused with DecryptionError by the service of any other tenant that has
\* the same runtime key and the same KDF config.
C2_TenantIsolation ==
    (/\ enc.by # 0 /\ dec.by # 0 /\ dec.by # enc.by
     /\ services[dec.by].runtime_key = services[enc.by].runtime_key
     /\ services[dec.by].kdf_config = services[enc.by].kdf_config
     /\ enc.arg # <<>> /\ enc.exc = ""
     /\ dec.arg = enc.val)
        => (dec.exc = "DecryptionError" /\ dec.val = <<>>)

\* another tenant's service, same key and config, was handed the blob
C2_Witness ==
    /\ enc.by # 0 /\ dec.by # 0 /\ dec.by # enc.by
    /\ services[dec.by].runtime_key = services[enc.by].runtime_key
    /\ services[dec.by].kdf_config = services[enc.by].kdf_config
    /\ enc.arg # <<>> /\ enc.exc = ""
    /\ dec.arg = enc.val
    /\ dec.exc = "DecryptionError"

(***************************************************************************)
(* Properties of EncryptionServiceManager                                  *)
(***************************************************************************)
\* C3: all get_service calls for one tenant, from whichever threads, return
\* the same instance.
C3_SameInstance == \A t \in TenantIds : Cardinality(returned[t]) <= 1

\* the instances of tenant t that have been constructed
InstancesOf(t) == { i \in 1..Len(heap) : heap[i].tenant_id = t }

\* C4: under every interleaving of get_service calls, at most one
\* TenantEncryptionService instance is ever constructed for a tenant.
C4_ConstructedOnce == \A t \in TenantIds : Cardinality(InstancesOf(t)) <= 1

(***************************************************************************)
(* Properties of EncryptedField                                            *)
(***************************************************************************)
\* "no such attribute"
Absent == [t |-> "absent", s |-> <<>>]

\* the cached plaintext and the storage field of field f on instance o
Cache(o, f) == getattr(attrs[o], descriptors[f].private_name, Absent)

Storage(o, f) == getattr(attrs[o], descriptors[f].storage_field, PyNone)

LastOn(op, o, f) == last.op = op /\ last.obj = o /\ last.field = f

\* C5: as long as the storage field is written by the descriptor only, the
\* cached plaintext is absent or None with a None storage field, or it is
\* the decryption of the storage field under the service now bound.
C5_CacheFaithful ==
    ~direct =>
        \A o \in Instances, f \in FieldNames :
            \/ Cache(o, f) \in {Absent, PyNone} /\ Storage(o, f) = PyNone
            \/ /\ Cache(o, f).t = "str"
               /\ Storage(o, f).t = "bytes"
               /\ _encryption_service[o] # NoService
               /\ decrypt(_encryption_service[o], Storage(o, f).s)
                      = [exc |-> "", val |-> Cache(o, f).s]

\* the storage field of f on o holds bytes that the bound service refuses
CorruptFor(o, f) ==
    /\ _encryption_service[o] # NoService
    /\ Storage(o, f).t = "bytes"
    /\ decrypt(_encryption_service[o], Storage(o, f).s).exc # ""

\* C6: a get with a bound service, nothing cached and a storage field whose
\* bytes the service cannot decrypt returns None and raises nothing.
C6_CorruptedReadsNull ==
    \A o \in Instances, f \in FieldNames :
        (LastOn("get", o, f) /\ Cache(o, f) = Absent /\ CorruptFor(o, f))
            => (last.exc = "" /\ last.ret = PyNone)

\* a get has run decrypt on a blob of another tenant's service and on garbage
C6_Witness ==
    \E o \in Instances, f \in FieldNames :
        /\ LastOn("get", o, f) /\ Cache(o, f) = Absent /\ CorruptFor(o, f)
        /\ last.decrypted
        /\ last.ret = PyNone
        /\ \E t \in TenantIds :
               decrypt(services[t], Storage(o, f).s).val # <<>>

\* C7: with no service bound, set of a value other than None raises
\* RuntimeError; get raises RuntimeError exactly when nothing is cached and
\* the storage field is not None, and returns None when the storage field is
\* None.
C7_NoService ==
    \A o \in Instances, f \in FieldNames :
        (_encryption_service[o] = NoService) =>
            /\ (LastOn("set", o, f) /\ last.arg # PyNone)
                   => last.exc = "RuntimeError"
            /\ LastOn("get", o, f) =>
                   /\ last.exc \in {"", "RuntimeError"}
                   /\ last.exc = "RuntimeError"
                          <=> (Cache(o, f) = Absent /\ Storage(o, f) # PyNone)
                   /\ Storage(o, f) = PyNone
                          => (last.exc = "" /\ last.ret = PyNone)

\* an unbound instance with a stored blob and nothing cached was read
C7_Witness ==
    \E o \in Instances, f \in FieldNames :
        /\ _encryption_service[o] = NoService
        /\ LastOn("get", o, f)
        /\ Cache(o, f) = Absent
        /\ Storage(o, f).t = "bytes"
        /\ last.exc = "RuntimeError"

\* C8: set(None) on a nullable field leaves the storage field None and no
\* plaintext cached, and the get that follows returns None without calling
\* the service.
C8_SetNoneClears ==
    \A o \in Instances, f \in FieldNames :
        (LastOn("set", o, f) /\ last.arg = PyNone /\ descriptors[f].nullable) =>
            /\ last.exc = ""
            /\ Storage(o, f) = PyNone
            /\ Cache(o, f) \in {Absent, PyNone}
            /\ LET g == __get__(descriptors[f], attrs[o], _encryption_service[o])
               IN  g.exc = "" /\ g.ret = PyNone /\ ~g.decrypted

\* None was assigned to a nullable field of an instance with a bound service
C8_Witness ==
    \E o \in Instances, f \in FieldNames :
        /\ LastOn("set", o, f) /\ last.arg = PyNone /\ descriptors[f].nullable
        /\ _encryption_service[o] # NoService
        /\ Storage(o, f) = PyNone

\* C9: set(None) on a field declared with nullable=False raises ValueError,
\* with or without a bound service.
C9_NonNullableRejectsNone ==
    \A o \in Instances, f \in FieldNames :
        (LastOn("set", o, f) /\ last.arg = PyNone /\ declaration[f] = "False")
            => last.exc = "ValueError"

\* None was assigned to a nullable=False field of an unbound instance
C9_Witness ==
    \E o \in Instances, f \in FieldNames :
        /\ LastOn("set", o, f) /\ last.arg = PyNone /\ declaration[f] = "False"
        /\ _encryption_service[o] = NoService
        /\ last.exc = "ValueError"

\* C10: a field declared without a nullable argument is non-nullable: only a
\* field declared with nullable=True accepts None, any other raises
\* ValueError.
C10_DefaultNonNullable ==
    \A o \in Instances, f \in FieldNames :
        (LastOn("set", o, f) /\ last.arg = PyNone /\ declaration[f] # "True")
            => last.exc = "ValueError"

\* the blobs service.encrypt(s) can return
EncryptResults(service, s) ==
    { encrypt(service, s, salt, nonce).val :
          salt \in Urandom(service.kdf_config.salt_length),
          nonce \in Urandom(GCM_NONCE_LENGTH) }

\* C11: a set of a value other than None that raises nothing was made with a
\* bound service and leaves a blob of service.encrypt(str(v)) in the storage
\* field and str(v) in the cache; and while a plaintext is cached, every
\* step that is no set, delete or reload keeps it cached, and a get returns
\* it.
C11_SetThenGet ==
    [][\A o \in Instances, f \in FieldNames :
          /\ (LastOn("set", o, f)' /\ last'.exc = "" /\ last'.arg # PyNone) =>
                 /\ _encryption_service'[o] # NoService
                 /\ Storage(o, f)'.t = "bytes"
                 /\ Storage(o, f)'.s \in EncryptResults(_encryption_service'[o],
                                                        str(last'.arg).s)
                 /\ Cache(o, f)' = str(last'.arg)
          /\ (Cache(o, f).t = "str" /\ last'.op \notin {"set", "delete", "reload"}) =>
                 /\ Cache(o, f)' = Cache(o, f)
                 /\ LastOn("get", o, f)' =>
                        (last'.exc = "" /\ last'.ret = Cache(o, f))
      ]_vars

\* a get returned a non-empty plaintext that only a set can have cached
C11_Witness ==
    \E o \in Instances, f \in FieldNames :
        /\ ~direct
        /\ LastOn("get", o, f)
        /\ _encryption_service[o] # NoService
        /\ last.exc = "" /\ last.ret.t = "str" /\ last.ret.s # <<>>
        /\ ~last.decrypted
        /\ Storage(o, f).t = "bytes"

(***************************************************************************)
(* More properties of TenantEncryptionService                              *)
(***************************************************************************)
\* C12: encrypt("") returns b"" and decrypt(b"") returns "", also under a
\* service whose key derivation raises (no key is derived on these paths),
\* and an encrypt that returns b"" was given "".
C12_EmptyShortCircuit ==
    /\ (enc.by # 0 /\ enc.arg = <<>>) => (enc.exc = "" /\ enc.val = <<>>)
    /\ (dec.by # 0 /\ dec.arg = <<>>) => (dec.exc = "" /\ dec.val = <<>>)
    /\ (enc.by # 0 /\ enc.exc = "" /\ enc.val = <<>>) => enc.arg = <<>>

\* a service whose KDF algorithm is unsupported encrypted "" and was handed
\* b"" to decrypt
C12_Witness ==
    /\ enc.by # 0 /\ enc.arg = <<>> /\ enc.val = <<>>
    /\ dec.by # 0 /\ dec.arg = <<>> /\ dec.val = <<>> /\ dec.exc = ""
    /\ _derive_key(services[enc.by], <<>>).exc # ""
    /\ _derive_key(services[dec.by], <<>>).exc # ""

\* C13: a TenantEncryptionService constructor called with a runtime key of
\* fewer than 32 bytes raises EncryptionConfigError, directly or inside
\* get_service, and every service built directly, allocated by a manager or
\* returned by get_service has a runtime key of at least 32 bytes.
C13_KeyLength ==
    /\ (ctor.cls = "TenantEncryptionService"
        /\ Len(runtime_key) < MIN_RUNTIME_KEY_LENGTH)
           => ctor.exc = "EncryptionConfigError"
    /\ \A t \in TenantIds :
           services[t] # NoService
               => Len(services[t].runtime_key) >= MIN_RUNTIME_KEY_LENGTH
    /\ \A i \in 1..Len(heap) : Len(heap[i].runtime_key) >= MIN_RUNTIME_KEY_LENGTH
    /\ \A t \in TenantIds : \A ref \in returned[t] :
           ref \in 1..Len(heap)
           /\ Len(heap[ref].runtime_key) >= MIN_RUNTIME_KEY_LENGTH
    /\ \A th \in Threads :
           (result[th] # NoResult
            /\ Len(manager.runtime_key) < MIN_RUNTIME_KEY_LENGTH)
               => result[th] = [exc |-> "EncryptionConfigError", ref |-> 0]

\* the constructor was called with a key of 31 bytes, one short of the
\* minimum, and a config it accepts, and raised
C13_Witness ==
    /\ ctor = [cls |-> "TenantEncryptionService", exc |-> "EncryptionConfigError"]
    /\ Len(runtime_key) = MIN_RUNTIME_KEY_LENGTH - 1
    /\ kdf_config.algorithm = "pbkdf2"
    /\ \A t \in TenantIds : services[t] = NoService

\* C14: after the constructors have succeeded, no encrypt raises
\* EncryptionConfigError, no decrypt fails on an EncryptionConfigError of its
\* key derivation, and no get_service raises EncryptionConfigError.
C14_ConfigErrorsAtConstruction ==
    /\ enc.by # 0 => enc.exc # "EncryptionConfigError"
    /\ (dec.by # 0 /\ dec.arg # <<>>) =>
           _derive_key(services[dec.by],
                       Slice(dec.arg, 0, services[dec.by].kdf_config.salt_length)).exc
               # "EncryptionConfigError"
    /\ \A th \in Threads : result[th].exc # "EncryptionConfigError"

(***************************************************************************)
(* More properties of EncryptedField                                       *)
(***************************************************************************)
\* the key derivation that decrypt(blob) runs under service
DeriveForBlob(service, blob) ==
    _derive_key(service, Slice(blob, 0, service.kdf_config.salt_length))

\* C15: a get that ran decrypt and returned None met a failure of the data
\* (the key derivation itself succeeded), a get that needs a service and has
\* none raises RuntimeError, and a set of a value other than None that
\* raises nothing has stored a blob its service decrypts.
C15_OnlyDataErrorsBecomeNull ==
    \A o \in Instances, f \in FieldNames :
        /\ (LastOn("get", o, f) /\ last.decrypted /\ last.exc = ""
            /\ last.ret = PyNone)
               => DeriveForBlob(_encryption_service[o], Storage(o, f).s).exc = ""
        /\ (LastOn("get", o, f) /\ _encryption_service[o] = NoService
            /\ Cache(o, f) = Absent /\ Storage(o, f) # PyNone)
               => last.exc = "RuntimeError"
        /\ (LastOn("set", o, f) /\ last.arg # PyNone /\ last.exc = "")
               => /\ Storage(o, f).t = "bytes"
                  /\ decrypt(_encryption_service[o], Storage(o, f).s).exc = ""

\* salt || nonce || AES-GCM output of the UTF-8 form of s, under the key
\* that service derives from salt
BlobOf(service, s, salt, nonce) ==
    salt \o nonce \o AESGCM_Output(_derive_key(service, salt).key, nonce,
                                   Utf8Encode(s))

\* what comes of a blob split after salt_length bytes and after 12 more
SplitResult(service, blob) ==
    LET salt_len == service.kdf_config.salt_length
        k == DeriveForBlob(service, blob)
        p == AESGCM_decrypt(k.key,
                            Slice(blob, salt_len, salt_len + GCM_NONCE_LENGTH),
                            Slice(blob, salt_len + GCM_NONCE_LENGTH, Len(blob)))
    IN  IF k.exc = "" /\ p.exc = "" /\ Utf8Decode(p.val).ok
        THEN [exc |-> "", val |-> Utf8Decode(p.val).s]
        ELSE [exc |-> "DecryptionError", val |-> <<>>]

\* C16: the blob encrypt returns for a non-empty s is salt || nonce ||
\* ciphertext-with-tag for a salt of salt_length bytes and a nonce of 12
\* bytes, salt_length + 12 + len(utf8(s)) + 16 bytes in all, and decrypt of a
\* non-empty blob gives what the split at these two offsets gives.
C16_BlobLayout ==
    /\ (enc.by # 0 /\ enc.arg # <<>> /\ enc.exc = "") =>
           /\ \E salt \in Urandom(services[enc.by].kdf_config.salt_length),
                 nonce \in Urandom(GCM_NONCE_LENGTH) :
                 enc.val = BlobOf(services[enc.by], enc.arg, salt, nonce)
           /\ Len(enc.val) = services[enc.by].kdf_config.salt_length
                             + GCM_NONCE_LENGTH + Len(Utf8Encode(enc.arg))
                             + GCM_TAG_LENGTH
    /\ (dec.by # 0 /\ dec.arg # <<>>) =>
           [exc |-> dec.exc, val |-> dec.val]
               = SplitResult(services[dec.by], dec.arg)

\* under a config with a salt of 16 bytes, a string of multi-byte characters
\* was encrypted with a salt and a nonce of different bytes and decrypted
C16_Witness ==
    /\ enc.by # 0 /\ enc.exc = "" /\ enc.arg = <<233, 19990, 127757>>
    /\ services[enc.by].kdf_config.salt_length = 16
    /\ enc.val[1] # enc.val[17]
    /\ dec.by = enc.by /\ dec.arg = enc.val /\ dec.exc = "" /\ dec.val = enc.arg

\* the end-to-end scenario: tenant 11111111-1111-1111-1111-111111111111,
\* default KDFConfig, a runtime key of 32 bytes of 0x42, encrypt("10.0.0.1")
EndToEnd ==
    /\ enc.by = 1
    /\ services[1].kdf_config = DefaultKDFArgs
    /\ services[1].runtime_key = Fill(32, 66)
    /\ enc.arg = <<49, 48, 46, 48, 46, 48, 46, 49>>

\* C17 as stated: in the end-to-end scenario the blob has
\* 32 + 12 + len("10.0.0.1") + 16 bytes, 76 bytes in all.
C17_Length76 ==
    EndToEnd =>
        /\ enc.exc = ""
        /\ Len(enc.val) = 32 + 12 + Len(enc.arg) + 16
        /\ Len(enc.val) = 76

\* C17, amended: in the end-to-end scenario the blob has
\* 32 + 12 + len("10.0.0.1") + 16 bytes, 68 bytes in all.
C17_Length68 ==
    EndToEnd =>
        /\ enc.exc = ""
        /\ Len(enc.val) = 32 + 12 + Len(enc.arg) + 16
        /\ Len(enc.val) = 68

\* the end-to-end encrypt has returned
C17_Witness == EndToEnd /\ enc.exc = "" /\ Len(enc.val) > 0

\* enc repeats prev: the same service has encrypted the same non-empty
\* string twice, both times without an exception
Repeated ==
    /\ prev.by # 0 /\ enc.by = prev.by /\ enc.arg = prev.arg
    /\ prev.arg # <<>> /\ prev.exc = "" /\ enc.exc = ""

\* salt and nonce at the head of a blob of service
Draws(service, blob) ==
    Slice(blob, 0, service.kdf_config.salt_length + GCM_NONCE_LENGTH)

\* the ciphertext-and-tag part of a blob of service
CiphertextOf(service, blob) ==
    Slice(blob, service.kdf_config.salt_length + GCM_NONCE_LENGTH, Len(blob))

\* each of the two blobs, handed to the service that made it, gives s back
BothDecrypt ==
    (Repeated /\ dec.by = enc.by /\ dec.arg \in {enc.val, prev.val})
        => (dec.exc = "" /\ dec.val = enc.arg)

FromEncrypt(service, blob) ==
    LET salt_len == service.kdf_config.salt_length
        salt == Slice(blob, 0, salt_len)
        nonce == Slice(blob, salt_len, salt_len + GCM_NONCE_LENGTH)
    IN  /\ salt \in Urandom(salt_len)
        /\ nonce \in Urandom(GCM_NONCE_LENGTH)
        /\ \E s \in Plaintexts :
               encrypt(service, s, salt, nonce) = [exc |-> "", val |-> blob]

\* C19: decrypt of a non-empty blob raises DecryptionError and returns no
\* string when the blob has fewer than salt_length + 12 bytes, when it is
\* not a blob that encrypt makes under the same service (another salt, nonce
\* or ciphertext-and-tag), or when it passes the tag check and holds bytes
\* that are no UTF-8.
C19_DecryptRejects ==
    (dec.by # 0 /\ dec.arg # <<>>) =>
        LET service == services[dec.by]
            rejected == dec.exc = "DecryptionError" /\ dec.val = <<>>
        IN  /\ Len(dec.arg) < service.kdf_config.salt_length + GCM_NONCE_LENGTH
                   => rejected
            /\ ~FromEncrypt(service, dec.arg) => rejected
            /\ (CanDerive(service) /\ dec.arg = NonTextBlob(service)) => rejected

\* decrypt refused a blob that passes the tag check and holds no text, after
\* an encrypt of the same service
C19_Witness ==
    /\ dec.by # 0 /\ CanDerive(services[dec.by])
    /\ dec.arg = NonTextBlob(services[dec.by])
    /\ AESGCM_decrypt(DeriveForBlob(services[dec.by], dec.arg).key,
                      Fill(GCM_NONCE_LENGTH, 1),
                      CiphertextOf(services[dec.by], dec.arg)).val = <<255>>
    /\ dec.exc = "DecryptionError"
    /\ enc.by = dec.by /\ enc.exc = "" /\ enc.val # <<>>

(***************************************************************************)
(* More properties of EncryptionServiceManager                             *)
(***************************************************************************)
\* C20: once manager._services holds an instance for a tenant, no step of
\* any get_service call removes the entry or puts another instance there.
C20_MappingOnlyGrows ==
    [][\A t \in TenantIds : _services[t] # 0 => _services'[t] = _services[t]]_vars

\* C21: after del obj.field the storage field is None and no plaintext is
\* cached, whatever was stored or cached before and whether or not a
\* service is bound; the get that follows returns None, raises nothing and
\* does not call the service.
C21_DeleteClears ==
    \A o \in Instances, f \in FieldNames :
        LastOn("delete", o, f) =>
            /\ last.exc = ""
            /\ Storage(o, f) = PyNone
            /\ Cache(o, f) = Absent
            /\ LET g == __get__(descriptors[f], attrs[o], _encryption_service[o])
               IN  g.exc = "" /\ g.ret = PyNone /\ ~g.decrypted /\ g.obj = attrs[o]

\* a field of an instance with a bound service was deleted
C21_Witness ==
    \E o \in Instances, f \in FieldNames :
        /\ LastOn("delete", o, f)
        /\ _encryption_service[o] # NoService
        /\ Storage(o, f) = PyNone
        /\ Cache(o, f) = Absent

\* C22: while a plaintext is cached for an instance and field, get returns
\* it without calling service.decrypt and changes nothing, and between two
\* consecutive assignments or deletions of a field at most one call of
\* service.decrypt made for it has succeeded.
C22_DecryptAtMostOnce ==
    \A o \in Instances, f \in FieldNames :
        /\ Cache(o, f) # Absent =>
               LET g == __get__(descriptors[f], attrs[o], _encryption_service[o])
               IN  /\ g.exc = "" /\ g.ret = Cache(o, f)
                   /\ ~g.decrypted /\ g.obj = attrs[o]
        /\ decrypts[o][f] <= 1

\* a get answered from the plaintext that an earlier get had decrypted
C22_Witness ==
    \E o \in Instances, f \in FieldNames :
        /\ LastOn("get", o, f) /\ ~last.decrypted /\ last.exc = ""
        /\ last.ret \notin {PyNone, PyStr(<<>>)}
        /\ decrypts[o][f] = 1
        /\ Cache(o, f) = last.ret

(***************************************************************************)
(* Properties of EncryptionServiceManager, continued                       *)
(***************************************************************************)
\* C23: every service in a manager's mapping is stored under its own
\* tenant id and carries the manager's runtime_key and kdf_config; the
\* service returned by get_service(t) has tenant_id t, and no instance is
\* returned for two different tenant ids.
C23_StoredUnderOwnTenant ==
    /\ \A t \in TenantIds :
           _services[t] # 0 =>
               /\ heap[_services[t]].tenant_id = t
               /\ heap[_services[t]].runtime_key = manager.runtime_key
               /\ heap[_services[t]].kdf_config = manager.kdf_config
    /\ \A th \in Threads :
           (pc[th] = "idle" /\ result[th].ref # 0) =>
               heap[result[th].ref].tenant_id = tenant_arg[th]
    /\ \A t1 \in TenantIds, t2 \in TenantIds :
           t1 # t2 => returned[t1] \cap returned[t2] = {}

\* get_service has returned a service for each of two tenants, from a
\* manager that was given a KDF configuration
C23_Witness ==
    \E t1 \in TenantIds, t2 \in TenantIds :
        /\ t1 # t2
        /\ returned[t1] # {} /\ returned[t2] # {}
        /\ kdf_config # NoneConfig
        /\ \E th \in Threads : pc[th] = "idle" /\ result[th].ref # 0

Built ==
    ({ services[t] : t \in TenantIds } \ {NoService})
    \cup { heap[i] : i \in 1..Len(heap) }

ShortKeyManager ==
    manager # NoManager /\ Len(manager.runtime_key) < MIN_RUNTIME_KEY_LENGTH

\* C26: with a manager that was given a runtime key shorter than 32 bytes,
\* every get_service call ends with EncryptionConfigError, the first and
\* every later one, and the mapping never gets an entry: no instance is
\* built, stored or returned.
C26_ShortKeyManager ==
    ShortKeyManager =>
        /\ \A t \in TenantIds : _services[t] = 0 /\ returned[t] = {}
        /\ heap = <<>>
        /\ \A th \in Threads :
               /\ pc[th] \in {"idle", "test", "construct"}
               /\ made[th] = 0
               /\ (pc[th] = "idle" /\ tenant_arg[th] # 0) =>
                      result[th] = [exc |-> "EncryptionConfigError", ref |-> 0]

\* one thread has called get_service twice on such a manager, and the
\* second call has failed as well
C26_Witness ==
    /\ ShortKeyManager
    /\ ncalls = 2
    /\ \E th \in Threads :
           /\ pc[th] = "idle"
           /\ result[th].exc = "EncryptionConfigError"
           /\ \A u \in Threads \ {th} : tenant_arg[u] = 0

(***************************************************************************)
(* Properties of EncryptedField, continued                                 *)
(***************************************************************************)
\* C27: an assignment to an encrypted field that raises (None for a
\* non-nullable field, no service bound, or an exception of encrypt)
\* leaves the instance as it was before the call: the same storage field
\* and the same cached plaintext, or none as before.
C27_FailedSetChangesNothing ==
    [][ \A o \in Instances, f \in FieldNames :
            (LastOn("set", o, f)' /\ last'.exc # "") =>
                /\ Storage(o, f)' = Storage(o, f)
                /\ Cache(o, f)' = Cache(o, f)
                /\ attrs' = attrs
      ]_vars

\* an assignment has failed on a field that holds a blob and a cached
\* plaintext, and both are still there
C27_Witness ==
    \E o \in Instances, f \in FieldNames :
        /\ LastOn("set", o, f) /\ last.exc # ""
        /\ Storage(o, f) # PyNone
        /\ Cache(o, f) \notin {Absent, PyNone}

\* the get just made on field f of instance o called decrypt, which failed
FailedGet(o, f) ==
    LastOn("get", o, f) /\ last.decrypted /\ last.exc = "" /\ last.ret = PyNone

\* C28: a get that returns None because decrypt failed leaves the instance
\* as it was, with its storage field and with nothing cached; the next get
\* calls decrypt again, and a get made once a service that can decrypt the
\* stored blob is bound returns the plaintext of the blob.
C28_FailedGetRetries ==
    [][ \A o \in Instances, f \in FieldNames :
            FailedGet(o, f)' =>
                /\ attrs' = attrs
                /\ Cache(o, f)' = Absent
                /\ Storage(o, f)'.t = "bytes"
                /\ \A g \in {__get__(descriptors'[f], attrs'[o],
                                     _encryption_service'[o])} :
                       g.decrypted /\ g.ret = PyNone /\ g.obj = attrs'[o]
                /\ \A t \in TenantIds :
                       \A d \in {decrypt(services'[t], Storage(o, f)'.s)} :
                           d.exc = "" =>
                               \A g \in {__get__(descriptors'[f], attrs'[o],
                                                 services'[t])} :
                                   /\ g.exc = "" /\ g.decrypted
                                   /\ g.ret = PyStr(d.val)
      ]_vars

\* a get has failed on a blob that the service of another tenant decrypts
\* to a plaintext that is not empty
C28_Witness ==
    \E o \in Instances, f \in FieldNames :
        /\ FailedGet(o, f)
        /\ \E t \in TenantIds :
               \E d \in {decrypt(services[t], Storage(o, f).s)} :
                   d.exc = "" /\ d.val # <<>>

\* the fields of the instances, as pairs <<instance, field>>
Slots == (DOMAIN attrs) \X (DOMAIN descriptors)

\* C29: a get, set or delete on a field of an instance changes only that
\* field's storage attribute and cached plaintext on that instance: every
\* other encrypted field of the instance, every field of every other
\* instance and the services bound stay as they were.
C29_FieldsIndependent ==
    [][ last'.op \in {"get", "set", "delete"} =>
            /\ \A s \in Slots :
                   s # <<last'.obj, last'.field>> =>
                       /\ Storage(s[1], s[2])' = Storage(s[1], s[2])
                       /\ Cache(s[1], s[2])' = Cache(s[1], s[2])
            /\ \A o \in DOMAIN attrs : o # last'.obj => attrs'[o] = attrs[o]
            /\ \A n \in DOMAIN attrs[last'.obj] \cup DOMAIN attrs'[last'.obj] :
                   n \notin {descriptors[last'.field].storage_field,
                              descriptors[last'.field].private_name} =>
                       /\ n \in DOMAIN attrs[last'.obj]
                       /\ n \in DOMAIN attrs'[last'.obj]
                       /\ attrs'[last'.obj][n] = attrs[last'.obj][n]
            /\ _encryption_service' = _encryption_service
      ]_vars

\* a field was assigned while the other field of the instance held a blob
\* and a cached plaintext, which it still holds
C29_Witness ==
    \E s \in Slots, r \in Slots :
        /\ s[1] = r[1] /\ s[2] # r[2]
        /\ LastOn("set", s[1], s[2]) /\ last.exc = "" /\ last.arg # PyNone
        /\ Storage(r[1], r[2]).t = "bytes"
        /\ Cache(r[1], r[2]).t = "str"
        /\ Storage(s[1], s[2]) # Storage(r[1], r[2])

(***************************************************************************)
(* IPAddress properties against a nullable EncryptedField                  *)
(***************************************************************************)
\* the cached plaintext of property f on the IPAddress instance
IPCache(f) == getattr(attrs[IPInstance], IPAddress_cached(f), Absent)

\* C30: after every sequence of get and set calls made on both, the
\* IPAddress property and the nullable EncryptedField have stored the same
\* bytes (the draws being the same) and cached the same plaintext, and the
\* next call gives the same outcome on both: a get returns the same value
\* or raises the same RuntimeError, also None where decryption fails, and
\* a set of None or of a string raises the same exception or none.
C30_PropertyLikeField ==
    \A f \in DOMAIN descriptors :
        /\ descriptors[f].nullable
        /\ attrs[IPInstance][IPAddress_encrypted(f)] = Storage(RefInstance, f)
        /\ IPCache(f) = Cache(RefInstance, f)
        /\ \A p \in {IPAddress_getter(f, attrs[IPInstance],
                                      _encryption_service[IPInstance])},
              d \in {__get__(descriptors[f], attrs[RefInstance],
                             _encryption_service[RefInstance])} :
              p.exc = d.exc /\ p.ret = d.ret /\ p.decrypted = d.decrypted
        /\ \A v \in FieldValues :
           \A salt \in Urandom(_encryption_service[IPInstance].kdf_config.salt_length),
              nonce \in Urandom(GCM_NONCE_LENGTH) :
              \A p \in {IPAddress_setter(f, attrs[IPInstance],
                                         _encryption_service[IPInstance],
                                         v, salt, nonce)},
                 d \in {__set__(descriptors[f], attrs[RefInstance],
                                _encryption_service[RefInstance],
                                v, salt, nonce)} :
                 /\ p.exc = d.exc
                 /\ p.obj[IPAddress_encrypted(f)]
                        = d.obj[descriptors[f].storage_field]

\* the getter of the property has returned None for a blob that the bound
\* service cannot decrypt
C30_Witness ==
    \E f \in IPFields :
        /\ f \in DOMAIN descriptors
        /\ FailedGet(IPInstance, f)
        /\ attrs[IPInstance][IPAddress_encrypted(f)].t = "bytes"
        /\ _encryption_service[RefInstance] = _encryption_service[IPInstance]

====
